---- MODULE Spec2Model ----
(***************************************************************************)
(* Model of breads.fm.iso_atmgrid_splinefm (the forward-model assembler)   *)
(* and of the observation object it reads (breads.instruments.Instrument). *)
(*                                                                         *)
(* Arrays are functions over 0-based index tuples, as in numpy.  Pixel     *)
(* values are integers; NaN, Inf and NegInf are the non-finite floats.     *)
(* Positions (x, y, refpos) are carried in half pixels (x2 = 2*x), so that *)
(* np.round's ties are representable.  badpixfraction is carried in        *)
(* quarters (bpf4 = 4*badpixfraction), values that are exact in binary     *)
(* floating point.  The numerical content of the spline basis, of the PSF  *)
(* and of the template is symbolic: a row of M records which pixel, which  *)
(* wavelength samples and which PSF centre it was built from.  np.float    *)
(* (lines 18, 192) is taken to be float, as in the numpy the code was      *)
(* written for.                                                            *)
(***************************************************************************)
EXTENDS Integers, Sequences, FiniteSets, TLC

VARIABLES cubeobj, cube0, before, last

vars == <<cubeobj, cube0, before, last>>

\* ---------------------------------------------------------------- bounds
NZ == 2          \* wavelength channels of the observation
NS == 3          \* rows and columns of a spectral cube

\* ------------------------------------------------------- floating point
NaN == -999
Inf == 999
NegInf == 0 - Inf

IsNaN(v) == v = NaN
IsFinite(v) == v \notin {NaN, Inf, NegInf}

\* np.sum of a 1d float array
RECURSIVE NpSum(_)
NpSum(a) ==
    IF a = <<>> THEN 0
    ELSE LET h == Head(a)
             t == NpSum(Tail(a))
         IN  IF IsNaN(h) \/ IsNaN(t) THEN NaN
             ELSE IF h = Inf THEN (IF t = NegInf THEN NaN ELSE Inf)
             ELSE IF h = NegInf THEN (IF t = Inf THEN NaN ELSE NegInf)
             ELSE IF t \in {Inf, NegInf} THEN t
             ELSE h + t

\* np.round of v2/2 (ties go to the even integer), then int()
PyRound(v2) ==
    IF v2 % 2 = 0 THEN v2 \div 2
    ELSE LET f == (v2 - 1) \div 2 IN IF f % 2 = 0 THEN f ELSE f + 1

\* np.clip(v, lo, hi)
NpClip(v, lo, hi) == IF v < lo THEN lo ELSE IF v > hi THEN hi ELSE v

\* the indices selected by the Python slice start:stop on an axis of length n
PySliceBound(i, n) == IF i < 0 THEN (IF i + n < 0 THEN 0 ELSE i + n)
                      ELSE IF i > n THEN n ELSE i
PySlice(start, stop, n) ==
    LET a == PySliceBound(start, n)
        b == PySliceBound(stop, n)
    IN  [i \in 1..(IF b > a THEN b - a ELSE 0) |-> a + i - 1]

\* np.where(mask)[0] for a 1d mask given as the set of its true indices
\* (1-based): they come in increasing order
NpWhere(n, mask) == SelectSeq([i \in 1..n |-> i], LAMBDA i : i \in mask)

\* ----------------------------------------------------- the observation
\* data.shape after the conversion to a (wv, y, x) cube
Shape3D(shape) ==
    IF Len(shape) = 1 THEN <<shape[1], 1, 1>>
    ELSE IF Len(shape) = 2 THEN <<shape[1], shape[2], 1>>
    ELSE shape

Pixels(shape) ==
    LET s == Shape3D(shape)
    IN  (0..(s[1] - 1)) \X (0..(s[2] - 1)) \X (0..(s[3] - 1))

\* np.pad(a, [(0,0),(w,w),(w,w)], constant_values=np.nan), read at [z, i, j]
NpPad(a, shape, w, z, i, j) ==
    IF /\ i - w >= 0 /\ i - w < shape[2]
       /\ j - w >= 0 /\ j - w < shape[3]
    THEN a[<<z, i - w, j - w>>]
    ELSE NaN

\* ------------------------------------------------ iso_atmgrid_splinefm
\* len(atm_grid.values.shape) - 1: the atmosphere grid has one parameter
Natmparas == 1

\* nonlin_paras[Natmparas::]
other_nonlin_paras(nonlin_paras) ==
    SubSeq(nonlin_paras, Natmparas + 1, Len(nonlin_paras))

\* (x, y) of the companion, in half pixels.  loc is <<>> for None, <<y>> for a
\* scalar and <<x, y>> for a pair; ndim is len(cubeobj.data.shape).
TargetXY(loc, ndim, other) ==
    IF Len(loc) = 2 THEN <<loc[1], loc[2]>>
    ELSE IF Len(loc) = 1 THEN <<0, loc[1]>>
    ELSE IF ndim = 1 THEN <<0, 0>>
    ELSE IF ndim = 2 THEN <<0, other[3]>>
    ELSE <<other[4], other[3]>>

\* wvs.shape after the conversion of cubeobj.wavelengths to 3 axes
WvShape3D(wshape) ==
    IF Len(wshape) = 1 THEN <<wshape[1], 1, 1>>
    ELSE IF Len(wshape) = 2 THEN <<wshape[1], wshape[2], 1>>
    ELSE wshape

\* the ValueError of the stamp width checks, "" when there is none
BoxwError(boxw, ny, nx) ==
    IF boxw % 2 = 0 THEN "boxw must be odd"
    ELSE IF boxw > ny \/ boxw > nx THEN "boxw bigger than the data"
    ELSE ""

\* bad_pixels[np.where(np.isnan(transmission))[0],:,:] = np.nan
\* bad_pixels is cubeobj.bad_pixels, or a view of it: the store is in place.
MaskTransmission(bad_pixels, transmission) ==
    [p \in DOMAIN bad_pixels |->
        IF IsNaN(transmission[p[1] + 1]) THEN NaN ELSE bad_pixels[p]]

\* w = int((boxw - 1) // 2)
HalfWidth(boxw) == (boxw - 1) \div 2

\* np.ravel(_pad[:, k-w:k+w+1, l-w:l+w+1]) of the padded copy of a; k and l
\* are the centre in the padded array.
Stamp(a, shape, w, k, l) ==
    LET rows == PySlice(k - w, k + w + 1, shape[2] + 2 * w)
        cols == PySlice(l - w, l + w + 1, shape[3] + 2 * w)
        nr == Len(rows)
        nc == Len(cols)
    IN  [i \in 1..(shape[1] * nr * nc) |->
            NpPad(a, shape, w, (i - 1) \div (nr * nc),
                  rows[(((i - 1) % (nr * nc)) \div nc) + 1],
                  cols[((i - 1) % nc) + 1])]

\* MaskZeroNoise with a fault: the pixels without noise are not marked bad.
MaskZeroNoise_skipped(badpixs, s) == badpixs

\* badpixs[np.where(s==0)] = np.nan
MaskZeroNoise(badpixs, s) ==
    [i \in 1..Len(badpixs) |-> IF s[i] = 0 THEN NaN ELSE badpixs[i]]

\* nodes is [type, n, items]: type(nodes), its value when an int, and for a
\* list or array the type and np.size of each element.
NodesKnown(nodes) == nodes.type \in {"int", "list", "ndarray"}

RECURSIVE SumSizes(_)
SumSizes(items) ==
    IF items = <<>> THEN 0 ELSE Head(items).size + SumSizes(Tail(items))

\* N_nodesOf with a fault: a list of groups counts its groups (len(nodes)).
N_nodesOf_groups(nodes) ==
    IF nodes.type = "int" THEN nodes.n ELSE Len(nodes.items)

\* N_nodes of the three accepted formats of nodes
N_nodesOf(nodes) ==
    IF nodes.type = "int" THEN nodes.n
    ELSE IF nodes.items[1].type \in {"list", "ndarray"} THEN SumSizes(nodes.items)
    ELSE Len(nodes.items)

\* fitback = False
fitback == FALSE
N_linparaOf(N_nodes, boxw) ==
    IF fitback THEN N_nodes + 3 * boxw * boxw ELSE N_nodes

\* np.where(np.isfinite(badpixs))[0], 1-based
WhereFinite(badpixs) ==
    NpWhere(Len(badpixs), {i \in 1..Len(badpixs) : IsFinite(badpixs[i])})

\* TooFewGood with a fault: vsini is not looked at.
TooFewGood_anySpin(ngood, total, bpf4, vsini) ==
    4 * ngood <= (4 - bpf4) * total

\* TooFewGood with a fault: a strict comparison.
TooFewGood_strict(ngood, total, bpf4, vsini) ==
    4 * ngood < (4 - bpf4) * total \/ vsini < 0

\* np.size(where_finite[0]) <= (1-badpixfraction) * np.size(badpixs) or vsini < 0
TooFewGood(ngood, total, bpf4, vsini) ==
    4 * ngood <= (4 - bpf4) * total \/ vsini < 0

\* np.sum(np.isnan(planet_model)) >= 1 or np.sum(planet_model)==0
\*   or np.size(atm_grid_wvs) != np.size(planet_model)
RejectSpectrum(planet_model, grid_wvs) ==
    \/ Len(SelectSeq(planet_model, IsNaN)) >= 1
    \/ NpSum(planet_model) = 0
    \/ Len(grid_wvs) # Len(planet_model)

\* the spaxel of wvs whose samples lwvs the spline basis is built on
SplineSpaxel(k, l, w, wshape) ==
    <<NpClip(k - 2 * w, 0, wshape[2] - 1), NpClip(l - 2 * w, 0, wshape[3] - 1)>>

\* the spaxel of wvs whose samples the template of stamp spaxel (_k, _l) is
\* evaluated on
TemplateSpaxel(k, l, w, sk, sl, wshape) ==
    <<NpClip(k - 2 * w + sk, 0, wshape[2] - 1),
      NpClip(l - 2 * w + sl, 0, wshape[3] - 1)>>

\* M after np.reshape(M, (nz * boxw * boxw, N_linpara)): row i is channel z,
\* stamp spaxel (sk, sl); its N_nodes entries are psfs[z,sk,sl] * M_spline[z,:]
\* * planet_spec[z].  k and l are the centre in the padded array.
ModelRows(nz, boxw, k, l, wshape, psf, transmission, broadened) ==
    LET w == HalfWidth(boxw) IN
    [i \in 1..(nz * boxw * boxw) |->
        LET z == (i - 1) \div (boxw * boxw)
            sk == ((i - 1) % (boxw * boxw)) \div boxw
            sl == (i - 1) % boxw
        IN  [z |-> z, sk |-> sk, sl |-> sl,
             spline |-> SplineSpaxel(k, l, w, wshape),
             template |-> TemplateSpaxel(k, l, w, sk, sl, wshape),
             psf |-> psf,
             transmission |-> transmission[z + 1],
             broadened |-> broadened]]

\* a[where_finite]
Take(a, where_finite) == [j \in 1..Len(where_finite) |-> a[where_finite[j]]]

\* psfs: pixgauss2d([1., w+dx, w+dy, psfw, 0.], (boxw, boxw)), normalised.
\* The Gaussian is identified by its centre (w+dx, w+dy), in half pixels.
PsfCentre(w, dx2, dy2) == <<2 * w + dx2, 2 * w + dy2>>

\* What a call hands back: status is "raise" (ValueError err), "empty" (one of
\* the two early returns) or "full"; ncols is M.shape[1]; offset is
\* <<k, l, dx, dy>> of line 129-130 (dx, dy in half pixels) once computed.
Raised(err, offset) ==
    [status |-> "raise", err |-> err, d |-> <<>>, M |-> <<>>, s |-> <<>>,
     ncols |-> 0, atm_called |-> FALSE, broadened |-> FALSE, offset |-> offset]

\* np.array([]), np.array([]).reshape(0,N_linpara), np.array([])
EmptyTriple(N_linpara, atm_called, offset) ==
    [status |-> "empty", err |-> "", d |-> <<>>, M |-> <<>>, s |-> <<>>,
     ncols |-> N_linpara, atm_called |-> atm_called, broadened |-> FALSE,
     offset |-> offset]

\* The function: its return value (ret) and the content of
\* cubeobj.bad_pixels when it returns or raises (bad_pixels).
iso_atmgrid_splinefm(nonlin_paras, cube, grid, grid_wvs, transmission, boxw, nodes, bpf4, loc) ==
    LET atm_paras == SubSeq(nonlin_paras, 1, Natmparas)
        other == other_nonlin_paras(nonlin_paras)
        shape == Shape3D(cube.shape)
        refpos == IF cube.refpos = <<>> THEN <<0, 0>> ELSE cube.refpos
        vsini == other[1]
        xy == TargetXY(loc, Len(cube.shape), other)
        wshape == WvShape3D(cube.wshape)
        err == BoxwError(boxw, shape[2], shape[3])
        bad_pixels == MaskTransmission(cube.bad_pixels, transmission)
        w == HalfWidth(boxw)
        k0 == PyRound(refpos[2] + xy[2])
        l0 == PyRound(refpos[1] + xy[1])
        dx2 == xy[1] - 2 * l0
        dy2 == xy[2] - 2 * k0
        k == k0 + w
        l == l0 + w
        offset == <<k0, l0, dx2, dy2>>
        d == Stamp(cube.data, shape, w, k, l)
        s == Stamp(cube.noise, shape, w, k, l)
        badpixs == MaskZeroNoise(Stamp(bad_pixels, shape, w, k, l), s)
        N_nodes == N_nodesOf(nodes)
        N_linpara == N_linparaOf(N_nodes, boxw)
        where_finite == WhereFinite(badpixs)
        planet_model == grid[atm_paras[1]]
        M == ModelRows(shape[1], boxw, k, l, wshape, PsfCentre(w, dx2, dy2),
                       transmission, vsini # 0)
    IN  IF err # ""
        THEN [ret |-> Raised(err, <<>>), bad_pixels |-> cube.bad_pixels]
        ELSE IF ~NodesKnown(nodes)
        THEN [ret |-> Raised("Unknown format for nodes.", offset),
              bad_pixels |-> bad_pixels]
        ELSE IF TooFewGood(Len(where_finite), Len(badpixs), bpf4, vsini)
        THEN [ret |-> EmptyTriple(N_linpara, FALSE, offset),
              bad_pixels |-> bad_pixels]
        ELSE IF RejectSpectrum(planet_model, grid_wvs)
        THEN [ret |-> EmptyTriple(N_linpara, TRUE, offset),
              bad_pixels |-> bad_pixels]
        ELSE [ret |-> [status |-> "full", err |-> "",
                       d |-> Take(d, where_finite),
                       M |-> Take(M, where_finite),
                       s |-> Take(s, where_finite),
                       ncols |-> N_linpara, atm_called |-> TRUE,
                       broadened |-> vsini # 0, offset |-> offset],
              bad_pixels |-> bad_pixels]

\* ------------------------------------------------------------ the inputs
\* The atmosphere grid: atm_grid(atm_paras)[0] for each grid point, and the
\* wavelengths it is sampled on.  Point 1 is a usable spectrum; the others are
\* a spectrum with a NaN, one with an infinite flux, an all-zero one and one
\* of the wrong length.
atm_grid == << <<3, 4>>, <<NaN, 4>>, <<Inf, 4>>, <<0, 0>>, <<3>> >>
atm_grid_wvs == <<10, 20>>

\* (atmosphere grid point, vsini) of a parameter vector
SpinChoices ==
    {<<a, 0>> : a \in 1..Len(atm_grid)} \cup {<<1, 1>>, <<1, -1>>, <<2, -1>>}

\* where the companion is put: loc, and the (y, x) tail of nonlin_paras, in
\* half pixels
TargetChoices ==
    {[loc |-> <<>>, yx |-> yx] :
        yx \in {<<0, 0>>, <<2, 2>>, <<1, 3>>, <<-2, 0>>, <<2 * NS, 2>>}}
    \cup {[loc |-> <<2, 0>>, yx |-> <<0, 0>>], [loc |-> <<2>>, yx |-> <<0, 0>>]}

\* [atm paras ....,vsini,rv,y,x] for 3d cubes, [...,vsini,rv,y] for 2d,
\* [...,vsini,rv] for 1d spectra
NonlinParas(ndim, spin, yx) ==
    <<spin[1], spin[2], 0>>
        \o (IF ndim = 1 THEN <<>> ELSE IF ndim = 2 THEN <<yx[1]>> ELSE yx)

\* transmission spectra: all ones, NaN in the first channel, NaN everywhere
Transmissions ==
    {[z \in 1..NZ |-> IF z <= bad THEN NaN ELSE 1] : bad \in {0, 1, NZ}}

BoxwChoices == {1, 2, 3}

\* nodes=2; nodes=[x1,x2,x3]; nodes=[[a,b],[c,d,e]]; nodes="20"
Scalar == [type |-> "float", size |-> 1]
IntNodes == [type |-> "int", n |-> 2, items |-> <<>>]
NodesChoices ==
    {IntNodes,
     [type |-> "list", n |-> 0, items |-> <<Scalar, Scalar, Scalar>>],
     [type |-> "list", n |-> 0,
      items |-> <<[type |-> "list", size |-> 2], [type |-> "list", size |-> 3]>>],
     [type |-> "str", n |-> 0, items |-> <<>>]}

\* badpixfraction 0, 0.75 (the default) and 1, in quarters
BpfChoices == {0, 3, 4}

\* the keyword arguments of a fit: every nodes with the default
\* badpixfraction, every badpixfraction with nodes=2
FitChoices ==
    {[nodes |-> n, bpf4 |-> 3] : n \in NodesChoices}
    \cup {[nodes |-> IntNodes, bpf4 |-> b] : b \in BpfChoices}

\* ------------------------------------------------------ the observations
DataValue(p) == 100 + 25 * p[1] + 5 * p[2] + p[3]
NoiseValue(p) == 500 + 25 * p[1] + 5 * p[2] + p[3]

\* one pixel of one array given a value of its own, or nothing (array "")
Flaws(shape) ==
    LET s == Shape3D(shape)
        px == {<<0, 0, 0>>, <<s[1] - 1, s[2] \div 2, s[3] \div 2>>}
    IN  {[array |-> "bad_pixels", pixel |-> p, value |-> NaN] : p \in px}
        \cup {[array |-> "noise", pixel |-> p, value |-> 0] : p \in px}
        \cup {[array |-> "data", pixel |-> <<0, 0, 0>>, value |-> NaN]}

\* an Instrument after its data have been entered
Observation(shape, wshape, refpos, flaw) ==
    [shape |-> shape, wshape |-> wshape, refpos |-> refpos,
     data |-> [p \in Pixels(shape) |->
                 IF flaw.array = "data" /\ flaw.pixel = p
                 THEN flaw.value ELSE DataValue(p)],
     noise |-> [p \in Pixels(shape) |->
                 IF flaw.array = "noise" /\ flaw.pixel = p
                 THEN flaw.value ELSE NoiseValue(p)],
     bad_pixels |-> [p \in Pixels(shape) |->
                 IF flaw.array = "bad_pixels" /\ flaw.pixel = p
                 THEN flaw.value ELSE 1]]

\* 1d spectrum, 2d (fibre) data with a wavelength solution per fibre, and a
\* cube with shared or per-spaxel wavelengths
Shapes ==
    {[shape |-> <<NZ>>, wshape |-> <<NZ>>],
     [shape |-> <<NZ, NS>>, wshape |-> <<NZ, NS>>],
     [shape |-> <<NZ, NS, NS>>, wshape |-> <<NZ>>],
     [shape |-> <<NZ, NS, NS>>, wshape |-> <<NZ, NS, NS>>]}

NoFlaw == [array |-> "", pixel |-> <<0, 0, 0>>, value |-> 0]

Observations ==
    {Observation(sh.shape, sh.wshape, <<0, 0>>, NoFlaw) : sh \in Shapes}
    \cup UNION {{Observation(shape, shape, <<0, 0>>, f) : f \in Flaws(shape)} :
                  shape \in {<<NZ>>, <<NZ, NS, NS>>}}
    \cup {Observation(<<NZ, NS, NS>>, <<NZ, NS, NS>>, r, NoFlaw) :
            r \in {<<>>, <<2, 2>>}}

\* ------------------------------------------------------ the state machine
NoCall ==
    [args |-> [nonlin_paras |-> <<>>, transmission |-> <<>>, boxw |-> 0,
               nodes |-> [type |-> "", n |-> 0, items |-> <<>>], bpf4 |-> 0,
               loc |-> <<>>],
     ret |-> [status |-> "none", err |-> "", d |-> <<>>, M |-> <<>>,
              s |-> <<>>, ncols |-> 0, atm_called |-> FALSE,
              broadened |-> FALSE, offset |-> <<>>]]

\* cubeobj is the observation object; cube0 is cubeobj as constructed and
\* before is cubeobj as it was when the last call was made; last is the last
\* call, its arguments and what it handed back, while the caller holds it.
Init ==
    /\ cubeobj \in Observations
    /\ cube0 = cubeobj
    /\ before = cubeobj
    /\ last = NoCall

\* the caller calls iso_atmgrid_splinefm(nonlin_paras, cubeobj, ...)
Call ==
    /\ last.ret.status = "none"
    /\ \E spin \in SpinChoices, target \in TargetChoices,
          transmission \in Transmissions, boxw \in BoxwChoices,
          fit \in FitChoices :
        LET args == [nonlin_paras |->
                        NonlinParas(Len(cubeobj.shape), spin, target.yx),
                     transmission |-> transmission, boxw |-> boxw,
                     nodes |-> fit.nodes, bpf4 |-> fit.bpf4,
                     loc |-> target.loc]
            r == iso_atmgrid_splinefm(args.nonlin_paras, cubeobj, atm_grid,
                                      atm_grid_wvs, args.transmission,
                                      args.boxw, args.nodes, args.bpf4,
                                      args.loc)
        IN  /\ cubeobj' = [cubeobj EXCEPT !.bad_pixels = r.bad_pixels]
            /\ last' = [args |-> args, ret |-> r.ret]
            /\ before' = cubeobj
            /\ UNCHANGED cube0

\* the caller takes the result (or the exception) and goes on
Resume ==
    /\ last.ret.status # "none"
    /\ last' = NoCall
    /\ before' = cubeobj
    /\ UNCHANGED <<cubeobj, cube0>>

Next == Call \/ Resume

Spec == Init /\ [][Next]_vars

\* ------------------------------------------------------------ the claims
Args == last.args
Ret == last.ret
Called == Ret.status # "none"
Returned == Ret.status \in {"empty", "full"}
Vsini == Args.nonlin_paras[Natmparas + 1]
DataShape == Shape3D(cubeobj.shape)

\* the number of spline nodes a node specification stands for: n for an
\* integer, the number of breakpoints of a flat list, and the breakpoints of
\* all groups together for a list of groups
RECURSIVE Breakpoints(_)
Breakpoints(items) ==
    IF items = <<>> THEN 0
    ELSE (IF Head(items).type = "float" THEN 1 ELSE Head(items).size)
         + Breakpoints(Tail(items))
ResolvedNodes(nodes) ==
    IF nodes.type = "int" THEN nodes.n ELSE Breakpoints(nodes.items)

\* the call's configuration is one the function refuses
ConfigurationError ==
    \/ Args.boxw % 2 = 0
    \/ Args.boxw > DataShape[2]
    \/ Args.boxw > DataShape[3]
    \/ Args.nodes.type \notin {"int", "list", "ndarray"}

\* the canonical empty triple with the resolved node count as column count
IsEmptyTriple ==
    /\ Ret.status = "empty"
    /\ Ret.d = <<>> /\ Ret.M = <<>> /\ Ret.s = <<>>
    /\ Ret.ncols = ResolvedNodes(Args.nodes)

C2_NoSideEffect ==
    /\ cubeobj.data = cube0.data
    /\ cubeobj.noise = cube0.noise
    /\ cubeobj.bad_pixels = cube0.bad_pixels
    /\ Called =>
         Ret = iso_atmgrid_splinefm(Args.nonlin_paras, cube0, atm_grid,
                                    atm_grid_wvs, Args.transmission, Args.boxw,
                                    Args.nodes, Args.bpf4, Args.loc).ret

\* C3 as stated: a call with negative vsini returns the empty triple, does not
\* raise, and performs neither the grid lookup nor the broadening.
C3_NegativeVsini ==
    (Called /\ Vsini < 0) =>
        IsEmptyTriple /\ ~Ret.atm_called /\ ~Ret.broadened

\* C3 amended: a call with negative vsini whose configuration is accepted
\* returns the empty triple without the grid lookup or the broadening; with a
\* configuration error it raises.
C3_NegativeVsiniValidConfig ==
    (Called /\ Vsini < 0) =>
        IF ConfigurationError THEN Ret.status = "raise"
        ELSE IsEmptyTriple /\ ~Ret.atm_called /\ ~Ret.broadened

\* badpixs of the call: the bad-pixel stamp after both maskings, and G
StampBadpixs ==
    LET w == HalfWidth(Args.boxw)
        k == Ret.offset[1] + w
        l == Ret.offset[2] + w
    IN  MaskZeroNoise(Stamp(cubeobj.bad_pixels, DataShape, w, k, l),
                      Stamp(cubeobj.noise, DataShape, w, k, l))
GoodCount == Len(WhereFinite(StampBadpixs))

\* C3 witness: negative vsini, a grid point whose spectrum has a NaN, and a
\* stamp with every pixel good: the empty triple, the grid not looked up
C3_Witness ==
    /\ Called /\ Vsini < 0 /\ ~ConfigurationError
    /\ Args.nonlin_paras[1] = 2
    /\ GoodCount = Len(StampBadpixs) /\ GoodCount > 0
    /\ IsEmptyTriple /\ ~Ret.atm_called

\* the early-return threshold of the claim: G <= (1 - badpixfraction) * T
AtOrBelowThreshold == 4 * GoodCount <= (4 - Args.bpf4) * Len(StampBadpixs)
SpectrumAccepted ==
    ~RejectSpectrum(atm_grid[Args.nonlin_paras[1]], atm_grid_wvs)
ThresholdRule ==
    /\ AtOrBelowThreshold => IsEmptyTriple
    /\ (~AtOrBelowThreshold /\ Vsini >= 0 /\ SpectrumAccepted) =>
          /\ Ret.status = "full"
          /\ GoodCount > 0
          /\ Len(Ret.d) = GoodCount
          /\ Len(Ret.M) = GoodCount
          /\ Len(Ret.s) = GoodCount

UnusableSpectrum(f) ==
    \/ \E i \in 1..Len(f) : ~IsFinite(f[i])
    \/ \A i \in 1..Len(f) : f[i] = 0
    \/ Len(f) # Len(atm_grid_wvs)

\* C5: when the grid lookup gives a spectrum with a non-finite value, an
\* all-zero one or one of the wrong length, the call returns the empty triple.
C5_RejectedSpectrum ==
    (Ret.atm_called /\ UnusableSpectrum(atm_grid[Args.nonlin_paras[1]]))
        => IsEmptyTriple

\* C6: every entry of d and of s of a non-empty result is finite.
C6_FiniteOutput ==
    Ret.status = "full" =>
        \A i \in 1..Len(Ret.d) : IsFinite(Ret.d[i]) /\ IsFinite(Ret.s[i])

\* the stamp pixels (z, sk, sl), wavelength-major, that the masking of the
\* claim keeps, read from the observation as it was before the call
CentreInside ==
    /\ Ret.offset[1] \in 0..(DataShape[2] - 1)
    /\ Ret.offset[2] \in 0..(DataShape[3] - 1)
StampPixel(z, sk, sl) ==
    LET w == HalfWidth(Args.boxw)
    IN  <<z, Ret.offset[1] - w + sk, Ret.offset[2] - w + sl>>
KeptPixel(z, sk, sl) ==
    LET p == StampPixel(z, sk, sl)
    IN  /\ p \in Pixels(DataShape)
        /\ ~IsNaN(Args.transmission[z + 1])
        /\ before.noise[p] # 0
        /\ IsFinite(before.bad_pixels[p])
ExpectedRows ==
    LET b == Args.boxw
        all == [i \in 1..(DataShape[1] * b * b) |->
                   <<(i - 1) \div (b * b), ((i - 1) % (b * b)) \div b,
                     (i - 1) % b>>]
    IN  SelectSeq(all, LAMBDA t : KeptPixel(t[1], t[2], t[3]))

\* C7: with the rounded centre inside the data, the rows of a non-empty
\* result are exactly the stamp pixels left by the masking (NaN transmission
\* channel, zero noise, NaN bad pixel, padding), in wavelength-major order,
\* and row i of d, M and s is the same pixel.
C7_KeptRows ==
    (Ret.status = "full" /\ CentreInside) =>
        /\ Len(Ret.M) = Len(ExpectedRows)
        /\ Len(Ret.d) = Len(ExpectedRows)
        /\ Len(Ret.s) = Len(ExpectedRows)
        /\ \A i \in 1..Len(ExpectedRows) :
             LET e == ExpectedRows[i]
                 p == StampPixel(e[1], e[2], e[3])
             IN  /\ <<Ret.M[i].z, Ret.M[i].sk, Ret.M[i].sl>> = e
                 /\ Ret.d[i] = before.data[p]
                 /\ Ret.s[i] = before.noise[p]

\* C7 witness: a 3 x 3 stamp in the corner of the cube (five of its nine
\* spaxels are padding) with the first channel's transmission NaN
C7_Witness ==
    /\ Ret.status = "full" /\ CentreInside
    /\ Args.boxw = 3
    /\ Ret.offset[1] = 0 /\ Ret.offset[2] = 0
    /\ IsNaN(Args.transmission[1])
    /\ Len(Ret.M) = 4 * (DataShape[1] - 1)

\* C8: a configuration error raises, whatever else holds, and raises before
\* anything has been changed.
C8_ConfigurationErrors ==
    /\ (Called /\ ConfigurationError) => Ret.status = "raise"
    /\ Ret.status = "raise" => cubeobj = before

\* C9: (k, l) is the rounded requested position and (dx, dy) its residual,
\* at most half a pixel in size.
C9_SubPixelOffset ==
    (Called /\ Ret.offset # <<>>) =>
        LET refpos == IF cubeobj.refpos = <<>> THEN <<0, 0>> ELSE cubeobj.refpos
            xy == TargetXY(Args.loc, Len(cubeobj.shape),
                           other_nonlin_paras(Args.nonlin_paras))
            k == Ret.offset[1]
            l == Ret.offset[2]
            dx2 == Ret.offset[3]
            dy2 == Ret.offset[4]
        IN  /\ k = PyRound(refpos[2] + xy[2])
            /\ l = PyRound(refpos[1] + xy[1])
            /\ dx2 = (refpos[1] + xy[1]) - 2 * l
            /\ dy2 = (refpos[2] + xy[2]) - 2 * k
            /\ dx2 \in -1..1
            /\ dy2 \in -1..1

\* C10: the spline basis is built on the wavelengths of the spaxel at the
\* centre of the stamp, and the template of stamp spaxel (sk, sl) on those of
\* the data pixel under it, both clipped to the wavelength array.
C10_WavelengthSamples ==
    Ret.status = "full" =>
        LET ws == WvShape3D(cubeobj.wshape)
            w == HalfWidth(Args.boxw)
            k0 == Ret.offset[1]
            l0 == Ret.offset[2]
        IN  \A i \in 1..Len(Ret.M) :
              /\ Ret.M[i].spline = <<NpClip(k0, 0, ws[2] - 1),
                                     NpClip(l0, 0, ws[3] - 1)>>
              /\ Ret.M[i].template =
                   <<NpClip(k0 - w + Ret.M[i].sk, 0, ws[2] - 1),
                     NpClip(l0 - w + Ret.M[i].sl, 0, ws[3] - 1)>>

====
